---- MODULE Spec2Model ----
(***************************************************************************)
(* chart.py: a linear script that samples three log-normal spend arrays,   *)
(* injects outliers, rounds, assembles a tidy table, renders a box plot    *)
(* and saves chart.png.                                                    *)
(*                                                                         *)
(* Money is fixed point in mills (1/1000 dollar), so that rounding to two  *)
(* decimals (10 mills) is a real operation.  Lengths in inches are in      *)
(* 1/1000 inch.  Strings that the script builds character by character     *)
(* (tick labels) are sequences of one-character strings.                   *)
(*                                                                         *)
(* The model runs two processes of the script ("A" and "B") side by side   *)
(* in the same environment, each in its own working directory, so that     *)
(* run-to-run reproducibility is a property of the reachable states.       *)
(***************************************************************************)
EXTENDS Integers, Naturals, Sequences, FiniteSets, TLC

(* ------------------------------ bounds ------------------------------- *)
\* number of library builds (numpy versions / platforms) the environment may hold
NumBuilds == 3
\* number of distinct values of OS entropy a process may see
NumEntropy == 2
\* size of the abstract bit-generator state space
RngMod == 64
\* longest axis tick array the tick-label specification draws
MaxTicks == 4

(* ------------------------- program constants ------------------------- *)
seed == 42
n_per_segment == 400
segments == <<"Budget", "Standard", "Premium">>
BudgetMedian == 20
StandardMedian == 45
PremiumMedian == 90
\* sigma of each segment, in hundredths (0.6, 0.55, 0.5)
BudgetSigma == 60
StandardSigma == 55
PremiumSigma == 50
BudgetCount == 6
StandardCount == 8
PremiumCount == 10
\* the default of add_outliers' factor_range parameter
factor_range == <<3, 6>>
figsize == <<8, 8>>
dpi == 64

Runs == {"A", "B"}
Builds == 1..NumBuilds
EntropyValues == 1..NumEntropy

(* --------------------------- numpy: Generator ------------------------ *)
\* The bit generator is a state in 0..RngMod-1; every draw is a function of
\* the state and advances it.  Which stream a seed gives depends on the build.
Mix(s, k) == (s * 31 + k * 17 + 7) % RngMod

\* the generator constructed without its seed: seeded from OS entropy
default_rng_unseeded(sd, ent, build) == (ent * 7 + build * 13) % RngMod

\* np.random.default_rng(seed): the state depends on the seed (and the build) only
default_rng(sd, ent, build) == (sd * 7 + build * 13) % RngMod

\* exp(sigma * z) for z = -2, -1, 0, 1, 2, per mille
ExpPermille(sigma) ==
    CASE sigma = 60 -> <<301, 549, 1000, 1822, 3320>>
      [] sigma = 55 -> <<333, 577, 1000, 1733, 3004>>
      [] sigma = 50 -> <<368, 607, 1000, 1649, 2718>>

\* rng.lognormal(mean=np.log(median), sigma, size): size strictly positive
\* samples around the median, in mills
Lognormal(g, median, sigma, size) ==
    [i \in 1..size |->
        median * ExpPermille(sigma)[(Mix(g, i) % 5) + 1] + (Mix(g, 3 * i + 1) % 10)]

\* rng.choice(n, size=count, replace=False): count pairwise distinct indices
\* (1-based here); ValueError when count > n
ChoiceRaises(n, count) == count > n
Choice(g, n, count) == [j \in 1..count |-> ((g * 13 + j - 1) % n) + 1]

\* rng.uniform(low, high, size=count) with an array-like high of shape (L,):
\* low (shape ()), high (L,) and the output (count,) are broadcast together and
\* the broadcast shape has to be the output shape, otherwise ValueError
UniformRaises(high, count) == Len(high) \notin {1, count}
Uniform(g, low, high, count) ==
    [j \in 1..count |->
        LET hi == IF Len(high) = 1 THEN high[1] ELSE high[j]
        IN  low * 1000 + (((hi - low) * 1000 * Mix(g, j)) \div RngMod)]

Advance(g, k) == Mix(g, k)

(* ----------------------------- add_outliers -------------------------- *)
Range(f) == {f[i] : i \in DOMAIN f}

\* arr[idx] = arr[idx] * factors
Scale(arr, idx, factors) ==
    [i \in DOMAIN arr |->
        IF i \in Range(idx)
        THEN LET j == CHOOSE k \in DOMAIN idx : idx[k] = i
             IN  (arr[i] * factors[j]) \div 1000
        ELSE arr[i]]

\* The result of a call: whether it raised, the array, the generator state and
\* the draws made, and the locals idx and factors as the call left them.
add_outliers(arr, count, frange, g) ==
    IF ChoiceRaises(Len(arr), count)
    THEN [raised |-> TRUE, arr |-> arr, rng |-> g, draws |-> <<"choice">>,
          idx |-> <<>>, factors |-> <<>>]
    ELSE LET idx == Choice(g, Len(arr), count)
             g1  == Advance(g, count)
         IN  IF UniformRaises(frange, count)
             THEN [raised |-> TRUE, arr |-> arr, rng |-> g1,
                   draws |-> <<"choice", "uniform">>,
                   idx |-> idx, factors |-> <<>>]
             ELSE LET factors == Uniform(g1, frange[1], frange, count)
                  IN  [raised |-> FALSE, arr |-> Scale(arr, idx, factors),
                       rng |-> Advance(g1, count + 1),
                       draws |-> <<"choice", "uniform">>,
                       idx |-> idx, factors |-> factors]

(* ------------------------------ np.round ----------------------------- *)
\* np.round(x, 2): to the nearest cent, ties to the even cent; result in mills
Round2(x) ==
    LET c == x \div 10
        r == x % 10
    IN  IF r < 5 THEN c * 10
        ELSE IF r > 5 THEN (c + 1) * 10
        ELSE IF c % 2 = 0 THEN c * 10 ELSE (c + 1) * 10

RoundArray(arr) == [i \in DOMAIN arr |-> Round2(arr[i])]

(* ----------------------------- DataFrame ----------------------------- *)
\* np.repeat(labels, n): every label n times, in order
Repeat(labels, n) ==
    [i \in 1..(Len(labels) * n) |-> labels[((i - 1) \div n) + 1]]

DataFrame(labels, n, b, s, p) ==
    [segment |-> Repeat(labels, n), spend |-> b \o s \o p]

NoFrame == [segment |-> <<>>, spend |-> <<>>]

(* ------------------- y-axis tick labels (lines 89-90) ---------------- *)
DigitChar == <<"0", "1", "2", "3", "4", "5", "6", "7", "8", "9">>

\* the decimal digits of n >= 0, most significant first
RECURSIVE Digits(_)
Digits(n) ==
    IF n < 10 THEN <<DigitChar[n + 1]>>
    ELSE Digits(n \div 10) \o <<DigitChar[(n % 10) + 1]>>

\* the "," of the format spec: a comma before every group of three digits
RECURSIVE Grouped(_)
Grouped(ds) ==
    IF Len(ds) <= 3 THEN ds
    ELSE Grouped(SubSeq(ds, 1, Len(ds) - 3)) \o <<",">>
         \o SubSeq(ds, Len(ds) - 2, Len(ds))

\* int(t): truncation toward zero, t in mills, result in dollars
IntTrunc(t) == IF t >= 0 THEN t \div 1000 ELSE -((-t) \div 1000)

\* f"{n:,}"
FormatInt(n) == IF n < 0 THEN <<"-">> \o Grouped(Digits(-n)) ELSE Grouped(Digits(n))

\* The magnitudes a (in mills, a % 10 = 5, a < 1000) whose binary double lies
\* above the decimal tie, so that "%.2f" rounds them up; the others below 1000
\* round down (0.125, 0.375, 0.625, 0.875 are exact ties and go to the even cent).
TieRoundsUp ==
    {5, 25, 35, 55, 65, 85, 95, 115, 135, 165, 195, 225, 255, 265, 275, 315,
     325, 335, 375, 385, 395, 405, 445, 455, 465, 505, 515, 525, 535, 545, 555,
     635, 645, 655, 665, 675, 685, 755, 765, 775, 785, 795, 805, 875, 885, 895,
     905, 915, 925, 935}

\* the cents "%.2f" prints for a magnitude of a mills
FixedCents(a) ==
    CASE a % 10 < 5 -> a \div 10
      [] a % 10 > 5 -> (a \div 10) + 1
      [] a % 10 = 5 /\ a < 1000 -> IF a \in TieRoundsUp THEN (a \div 10) + 1
                                                      ELSE a \div 10

\* f"{t:.2f}": the sign of t is kept even when the digits round to zero
FormatFixed2(t) ==
    LET a == IF t < 0 THEN -t ELSE t
        c == FixedCents(a)
    IN  (IF t < 0 THEN <<"-">> ELSE <<>>)
        \o Digits(c \div 100) \o <<".">>
        \o <<DigitChar[((c % 100) \div 10) + 1], DigitChar[(c % 10) + 1]>>

\* the tick label with the test written as t > 1
TickLabelStrict(t) ==
    IF t > 1000 THEN <<"$">> \o FormatInt(IntTrunc(t))
    ELSE <<"$">> \o FormatFixed2(t)

\* f"${int(t):,}" if t >= 1 else f"${t:.2f}"
TickLabel(t) ==
    IF t >= 1000 THEN <<"$">> \o FormatInt(IntTrunc(t))
    ELSE <<"$">> \o FormatFixed2(t)

\* [... for t in y_ticks]
TickLabels(ticks) == [i \in DOMAIN ticks |-> TickLabel(ticks[i])]

(* ------------------------------ rendering ---------------------------- *)
NiceSteps ==
    <<1000, 2000, 5000, 10000, 20000, 50000, 100000, 200000, 500000,
      1000000, 2000000, 5000000>>

\* the largest element of an array (0 for an empty one)
MaxOf(arr) ==
    IF Len(arr) = 0 THEN 0
    ELSE LET S == Range(arr) IN CHOOSE m \in S : \A x \in S : x <= m

\* ax.get_yticks(): evenly spaced tick locations that cover the data, one
\* location beyond the view on either side
GetYTicks(spend) ==
    LET m    == MaxOf(spend)
        fit  == {i \in DOMAIN NiceSteps : 8 * NiceSteps[i] >= m}
        step == NiceSteps[CHOOSE i \in fit : \A j \in fit : i <= j]
    IN  [i \in 1..((m \div step) + 3) |-> (i - 2) * step]

NoFigure ==
    [open |-> FALSE, style |-> "", context |-> "", palette |-> 0,
     figsize |-> <<0, 0>>, boxes |-> <<>>, showmeans |-> FALSE,
     title |-> "", xlabel |-> "", ylabel |-> "",
     yticks |-> <<>>, yticklabels |-> <<>>,
     spines |-> {"top", "right", "bottom", "left"}, tight |-> FALSE]

\* the index at which x first appears in a column
FirstIndex(col, x) ==
    CHOOSE i \in DOMAIN col : col[i] = x /\ \A j \in 1..(i - 1) : col[j] # x

\* the categories of a column in order of first appearance
Categories(col) ==
    LET S == Range(col)
    IN  [k \in 1..Cardinality(S) |->
            CHOOSE x \in S :
                Cardinality({y \in S : FirstIndex(col, y) < FirstIndex(col, x)}) = k - 1]

Ceil(a, b) == (a + b - 1) \div b

\* plt.savefig(name, dpi, bbox_inches="tight"): the canvas is cropped to the
\* artists' bounding box plus pad_inches (0.1 inch) on every side.  After
\* tight_layout() the artists fill the figure up to a margin of 1.08 times the
\* font size (18 pt in the "talk" context).  Lengths in 1/1000 inch.
SavedPixels(fig, inches, d) ==
    LET canvas == inches * 1000
        margin == IF fig.tight THEN (108 * 18 * 1000) \div (100 * 72) ELSE 0
        extent == canvas - 2 * margin + 2 * 100
    IN  Ceil(extent * d, 1000)

NoFile == [exists |-> FALSE, fresh |-> FALSE, width |-> 0, height |-> 0]
StaleFile == [exists |-> TRUE, fresh |-> FALSE, width |-> 0, height |-> 0]

Savefig(fig, d) ==
    [exists |-> TRUE, fresh |-> TRUE,
     width  |-> SavedPixels(fig, fig.figsize[1], d),
     height |-> SavedPixels(fig, fig.figsize[2], d)]

(* ------------------------------ the script --------------------------- *)
VARIABLES
    numpy_build,   \* the library build both processes run on
    proc,          \* per process: the script's position and its names
    ticks_in,      \* tick-label specification: the tick array formatted
    labels_out,    \* tick-label specification: the labels built from it
    formatted      \* tick-label specification: whether the labels were built

vars == <<numpy_build, proc, ticks_in, labels_out, formatted>>

\* the statements of the script, by the line each starts at, in program order
ScriptOrder ==
    <<"L8", "L23", "L25", "L27", "L36", "L37", "L38", "L41", "L42", "L43",
      "L46", "L58", "L68", "L70", "L83", "L89", "L93", "L97", "L98">>

NextLine(l) ==
    LET i == CHOOSE k \in DOMAIN ScriptOrder : ScriptOrder[k] = l
    IN  IF i = Len(ScriptOrder) THEN "exited" ELSE ScriptOrder[i + 1]

NotCalled == [called |-> FALSE, count |-> 0, before |-> <<>>, idx |-> <<>>, factors |-> <<>>]

\* a process before its first statement: ent is the OS entropy it would see,
\* file the chart.png already in its working directory (kept in existing)
Start(ent, file) ==
    [pc |-> "L8", entropy |-> ent, rng |-> 0,
     budget_spend |-> <<>>, standard_spend |-> <<>>, premium_spend |-> <<>>,
     df |-> NoFrame, fig |-> NoFigure, existing |-> file, chart_png |-> file,
     exit_status |-> -1, raised_at |-> "none", executed |-> <<>>, draws |-> <<>>,
     outliers |-> [g \in Range(segments) |-> NotCalled]]

\* a call of add_outliers at a call site: the array is rebound only when the
\* call returns; the generator keeps what the call consumed either way
CallAddOutliers(s, seg, arr, count) ==
    LET r == add_outliers(arr, count, factor_range, s.rng)
        t == [s EXCEPT !.rng = r.rng,
                       !.draws = s.draws \o [i \in DOMAIN r.draws |-> <<r.draws[i], seg>>],
                       !.outliers[seg] = [called |-> TRUE, count |-> count, before |-> arr,
                                          idx |-> r.idx, factors |-> r.factors]]
    IN  [exc |-> r.raised,
         st  |-> IF r.raised THEN t
                 ELSE CASE seg = "Budget"   -> [t EXCEPT !.budget_spend = r.arr]
                        [] seg = "Standard" -> [t EXCEPT !.standard_spend = r.arr]
                        [] seg = "Premium"  -> [t EXCEPT !.premium_spend = r.arr]]

Sample(s, seg, median, sigma) ==
    LET arr == Lognormal(s.rng, median, sigma, n_per_segment)
        t   == [s EXCEPT !.rng = Advance(s.rng, n_per_segment),
                         !.draws = Append(s.draws, <<"lognormal", seg>>)]
    IN  CASE seg = "Budget"   -> [t EXCEPT !.budget_spend = arr]
          [] seg = "Standard" -> [t EXCEPT !.standard_spend = arr]
          [] seg = "Premium"  -> [t EXCEPT !.premium_spend = arr]

Ok(t) == [exc |-> FALSE, st |-> t]

\* the effect of the statement at s.pc: the names after it, and whether it raised
Effect(s) ==
    CASE s.pc = "L8"  -> Ok([s EXCEPT !.rng = default_rng(seed, s.entropy, numpy_build)])
      [] s.pc = "L23" -> Ok(Sample(s, "Budget", BudgetMedian, BudgetSigma))
      [] s.pc = "L25" -> Ok(Sample(s, "Standard", StandardMedian, StandardSigma))
      [] s.pc = "L27" -> Ok(Sample(s, "Premium", PremiumMedian, PremiumSigma))
      [] s.pc = "L36" -> CallAddOutliers(s, "Budget", s.budget_spend, BudgetCount)
      [] s.pc = "L37" -> CallAddOutliers(s, "Standard", s.standard_spend, StandardCount)
      [] s.pc = "L38" -> CallAddOutliers(s, "Premium", s.premium_spend, PremiumCount)
      [] s.pc = "L41" -> Ok([s EXCEPT !.budget_spend = RoundArray(s.budget_spend)])
      [] s.pc = "L42" -> Ok([s EXCEPT !.standard_spend = RoundArray(s.standard_spend)])
      [] s.pc = "L43" -> Ok([s EXCEPT !.premium_spend = RoundArray(s.premium_spend)])
      [] s.pc = "L46" -> Ok([s EXCEPT !.df = DataFrame(segments, n_per_segment,
                                    s.budget_spend, s.standard_spend, s.premium_spend)])
      [] s.pc = "L58" -> Ok([s EXCEPT !.fig.style = "whitegrid", !.fig.context = "talk",
                                      !.fig.palette = Len(segments)])
      [] s.pc = "L68" -> Ok([s EXCEPT !.fig.open = TRUE, !.fig.figsize = figsize])
      [] s.pc = "L70" -> Ok([s EXCEPT !.fig.boxes = Categories(s.df.segment),
                                      !.fig.showmeans = TRUE,
                                      !.fig.yticks = GetYTicks(s.df.spend)])
      [] s.pc = "L83" -> Ok([s EXCEPT !.fig.title = "Customer Spending by Segment",
                                      !.fig.xlabel = "Customer Segment",
                                      !.fig.ylabel = "Spend per Order ($)"])
      [] s.pc = "L89" -> Ok([s EXCEPT !.fig.yticklabels = TickLabels(s.fig.yticks)])
      [] s.pc = "L93" -> Ok([s EXCEPT !.fig.spines = s.fig.spines \ {"top", "right"}])
      [] s.pc = "L97" -> Ok([s EXCEPT !.fig.tight = TRUE])
      [] s.pc = "L98" -> Ok([s EXCEPT !.chart_png = Savefig(s.fig, dpi)])

\* the statement returned: go on with the next one; after the last, exit 0
Complete(s) ==
    [s EXCEPT !.pc = NextLine(s.pc),
              !.executed = Append(s.executed, s.pc),
              !.exit_status = IF NextLine(s.pc) = "exited" THEN 0 ELSE s.exit_status]

\* an exception handled by going on with the next statement
RaiseSwallowed(s) ==
    [s EXCEPT !.pc = NextLine(s.pc),
              !.executed = Append(s.executed, s.pc),
              !.raised_at = s.pc,
              !.exit_status = IF NextLine(s.pc) = "exited" THEN 0 ELSE s.exit_status]

\* no statement is inside a try: the exception ends the process with status 1
Raise(s) ==
    [s EXCEPT !.pc = "exited",
              !.executed = Append(s.executed, s.pc),
              !.raised_at = s.pc,
              !.exit_status = 1]

Init ==
    /\ numpy_build \in Builds
    /\ proc \in [Runs -> {Start(e, f) : e \in EntropyValues, f \in {NoFile, StaleFile}}]
    /\ ticks_in = <<>>
    /\ labels_out = <<>>
    /\ formatted = FALSE

\* process r executes its next statement, which returns
Statement(r) ==
    /\ proc[r].pc # "exited"
    /\ ~Effect(proc[r]).exc
    /\ proc' = [proc EXCEPT ![r] = Complete(Effect(proc[r]).st)]
    /\ UNCHANGED <<numpy_build, ticks_in, labels_out, formatted>>

\* process r executes its next statement, which raises
Uncaught(r) ==
    /\ proc[r].pc # "exited"
    /\ Effect(proc[r]).exc
    /\ proc' = [proc EXCEPT ![r] = Raise(Effect(proc[r]).st)]
    /\ UNCHANGED <<numpy_build, ticks_in, labels_out, formatted>>

Next == \E r \in Runs : Statement(r) \/ Uncaught(r)

Spec == Init /\ [][Next]_vars

(* ----------------- the tick-label function on its own ---------------- *)
TickStarts ==
    {-1000, -995, -500, -250, -5, -1, 0, 1, 4, 5, 6, 15, 125, 500, 985, 994,
     995, 996, 999, 1000, 1001, 1500, 999000, 999999, 1000000, 1500000,
     999999000, 1234567000}

TickSteps == {1, 5, 10, 250, 500, 1000, 200000, 500000, 2500000}

\* evenly spaced tick arrays, as an axis locator produces them
TickArrays ==
    {[i \in 1..k |-> a + (i - 1) * d] : a \in TickStarts, d \in TickSteps, k \in 0..MaxTicks}

InitTicks ==
    /\ numpy_build = 1
    /\ proc = [r \in Runs |-> Start(1, NoFile)]
    /\ ticks_in \in TickArrays
    /\ labels_out = <<>>
    /\ formatted = FALSE

FormatTicks ==
    /\ ~formatted
    /\ labels_out' = TickLabels(ticks_in)
    /\ formatted' = TRUE
    /\ UNCHANGED <<numpy_build, proc, ticks_in>>

NextTicks == FormatTicks

SpecTicks == InitTicks /\ [][NextTicks]_vars

(* ============================== properties =========================== *)
Exited(r) == proc[r].pc = "exited"

LastExecuted(s) == IF Len(s.executed) = 0 THEN "none" ELSE s.executed[Len(s.executed)]

SpendOf(s, seg) ==
    CASE seg = "Budget"   -> s.budget_spend
      [] seg = "Standard" -> s.standard_spend
      [] seg = "Premium"  -> s.premium_spend

CallSite(seg) ==
    CASE seg = "Budget" -> "L36" [] seg = "Standard" -> "L37" [] seg = "Premium" -> "L38"

Segs == Range(segments)

\* C1: every run that ends has passed through every statement in order, none
\* raised, its exit status is 0 and it wrote chart.png.
C1_RunCompletes ==
    \A r \in Runs :
        Exited(r) =>
            /\ proc[r].executed = ScriptOrder
            /\ proc[r].raised_at = "none"
            /\ proc[r].exit_status = 0
            /\ proc[r].chart_png.exists /\ proc[r].chart_png.fresh

\* C2: right after the add_outliers call of a segment, idx holds exactly count
\* pairwise distinct indices of the array, exactly the entries at those indices
\* are the old entries times their factors, and every other entry is unchanged.
C2_OutliersApplied ==
    \A r \in Runs : \A seg \in Segs :
        LET s   == proc[r]
            o   == s.outliers[seg]
            arr == SpendOf(s, seg)
        IN  (o.called /\ LastExecuted(s) = CallSite(seg)) =>
                /\ Len(o.idx) = o.count
                /\ Cardinality(Range(o.idx)) = o.count
                /\ Range(o.idx) \subseteq DOMAIN o.before
                /\ Len(o.factors) = o.count
                /\ DOMAIN arr = DOMAIN o.before
                /\ \A j \in DOMAIN o.idx :
                       arr[o.idx[j]] = (o.before[o.idx[j]] * o.factors[j]) \div 1000
                /\ \A i \in DOMAIN arr : i \notin Range(o.idx) => arr[i] = o.before[i]

\* C3: right after the add_outliers call of a segment, factors holds exactly
\* count elements, one per selected index, each between 3 and 6.
C3_FactorsInRange ==
    \A r \in Runs : \A seg \in Segs :
        LET s == proc[r]
            o == s.outliers[seg]
        IN  (o.called /\ LastExecuted(s) = CallSite(seg)) =>
                /\ Len(o.factors) = o.count
                /\ Len(o.factors) = Len(o.idx)
                /\ \A j \in DOMAIN o.factors :
                       /\ o.factors[j] >= factor_range[1] * 1000
                       /\ o.factors[j] <= factor_range[2] * 1000

\* C4: a segment's array never has another length than n_per_segment once
\* sampled, and a run ends with a table of 3 * n_per_segment rows, n_per_segment
\* of each segment, whose two columns have the same length.
C4_TableShape ==
    \A r \in Runs :
        /\ \A seg \in Segs : Len(SpendOf(proc[r], seg)) \in {0, n_per_segment}
        /\ Exited(r) =>
             /\ \A seg \in Segs : Len(SpendOf(proc[r], seg)) = n_per_segment
             /\ Len(proc[r].df.spend) = 3 * n_per_segment
             /\ Len(proc[r].df.segment) = Len(proc[r].df.spend)
             /\ \A seg \in Segs :
                    Cardinality({i \in DOMAIN proc[r].df.segment :
                                     proc[r].df.segment[i] = seg}) = n_per_segment

\* C5: a run ends with a table in which every spend value is strictly positive
\* and a whole number of cents.
C5_SpendPositiveRounded ==
    \A r \in Runs :
        Exited(r) =>
            /\ Len(proc[r].df.spend) > 0
            /\ \A i \in DOMAIN proc[r].df.spend :
                   /\ proc[r].df.spend[i] > 0
                   /\ proc[r].df.spend[i] % 10 = 0

\* C6: a run ends with a table whose row i (from 0) carries the label
\* segments[i div n_per_segment] and element i mod n_per_segment of that
\* segment's rounded array.
C6_TableOrder ==
    \A r \in Runs :
        Exited(r) =>
            \A i \in 0..(3 * n_per_segment - 1) :
                LET seg == segments[(i \div n_per_segment) + 1]
                IN  /\ i + 1 \in DOMAIN proc[r].df.segment
                    /\ i + 1 \in DOMAIN proc[r].df.spend
                    /\ proc[r].df.segment[i + 1] = seg
                    /\ proc[r].df.spend[i + 1] =
                           SpendOf(proc[r], seg)[(i % n_per_segment) + 1]

\* C10: a run ends with a chart.png it wrote that is 512 by 512 pixels
\* (figsize times dpi in both directions).
C10_Image512 ==
    \A r \in Runs :
        Exited(r) =>
            /\ proc[r].chart_png.fresh
            /\ proc[r].chart_png.width = figsize[1] * dpi
            /\ proc[r].chart_png.height = figsize[2] * dpi
            /\ figsize[1] * dpi = 512 /\ figsize[2] * dpi = 512

(* ------------------------------- C8 ---------------------------------- *)
\* the order in which the script draws from the generator
DrawOrder ==
    <<<<"lognormal", "Budget">>, <<"lognormal", "Standard">>, <<"lognormal", "Premium">>,
      <<"choice", "Budget">>, <<"uniform", "Budget">>,
      <<"choice", "Standard">>, <<"uniform", "Standard">>,
      <<"choice", "Premium">>, <<"uniform", "Premium">>>>

IsPrefix(a, b) == Len(a) <= Len(b) /\ a = SubSeq(b, 1, Len(a))

IsDigit(c) == c \in Range(DigitChar)
DigitValue(c) == (CHOOSE k \in DOMAIN DigitChar : DigitChar[k] = c) - 1

RECURSIVE NumeralValue(_)
NumeralValue(ds) ==
    IF Len(ds) = 0 THEN 0
    ELSE NumeralValue(SubSeq(ds, 1, Len(ds) - 1)) * 10 + DigitValue(ds[Len(ds)])

NotComma(c) == c # ","

\* L is "$", then the decimal numeral of the whole dollars of t (no leading
\* zero, no decimals) with a comma before every complete group of three digits
WholeDollarLabel(L, t) ==
    /\ Len(L) >= 2 /\ L[1] = "$"
    /\ LET body == Tail(L)
           n    == Len(body)
           ds   == SelectSeq(body, NotComma)
       IN  /\ n % 4 # 0
           /\ \A p \in 1..n :
                  IF (n - p + 1) % 4 = 0 THEN body[p] = "," ELSE IsDigit(body[p])
           /\ Len(ds) = 1 \/ ds[1] # "0"
           /\ NumeralValue(ds) = t \div 1000

\* L is "$", then "-" when t is negative, then a numeral with exactly two
\* decimals that is the magnitude of t to the nearest cent
TwoDecimalLabel(L, t) ==
    /\ Len(L) >= 5 /\ L[1] = "$"
    /\ LET body == Tail(L)
           u    == IF t < 0 THEN Tail(body) ELSE body
           n    == Len(u)
           a    == IF t < 0 THEN -t ELSE t
       IN  /\ t < 0 => body[1] = "-"
           /\ n >= 4 /\ u[n - 2] = "."
           /\ \A p \in (1..n) \ {n - 2} : IsDigit(u[p])
           /\ n = 4 \/ u[1] # "0"
           /\ LET c == NumeralValue(SubSeq(u, 1, n - 3)) * 100
                       + NumeralValue(SubSeq(u, n - 1, n))
              IN  10 * c - a \in -5..5

\* C7: there is one label per tick; a tick of at least 1 is labelled "$" and
\* its whole dollars with thousands separators and no decimals, a tick below 1
\* "$" and the tick with exactly two decimals; 1500 gives $1,500, 0.5 gives
\* $0.50 and 0 gives $0.00.
C7_TickLabels ==
    formatted =>
        /\ Len(labels_out) = Len(ticks_in)
        /\ \A i \in DOMAIN ticks_in :
               /\ ticks_in[i] >= 1000 => WholeDollarLabel(labels_out[i], ticks_in[i])
               /\ ticks_in[i] < 1000 => TwoDecimalLabel(labels_out[i], ticks_in[i])
               /\ ticks_in[i] = 1500000 => labels_out[i] = <<"$", "1", ",", "5", "0", "0">>
               /\ ticks_in[i] = 500 => labels_out[i] = <<"$", "0", ".", "5", "0">>
               /\ ticks_in[i] = 0 => labels_out[i] = <<"$", "0", ".", "0", "0">>

\* the labels of an array that holds the tick 0 and the tick 1500
C7_Witness ==
    /\ formatted
    /\ \E i \in DOMAIN ticks_in : ticks_in[i] = 0
    /\ \E i \in DOMAIN ticks_in : ticks_in[i] = 1500000
    /\ Len(labels_out) = Len(ticks_in)
====
